---- MODULE Spec2Model ----
(***************************************************************************)
(* Model of the rainbow-table time/memory trade-off harness:               *)
(*   analyze_tradeoff.py  generate_test_hashes, run_experiment, __main__   *)
(*   view_table.py        the artifact viewer script                       *)
(* Three specifications share one variable tuple:                          *)
(*   SpecGen / LiveSpecGen  generate_test_hashes                           *)
(*   Spec                   run_experiment and the __main__ block          *)
(*   SpecView               view_table.py                                  *)
(***************************************************************************)
EXTENDS Integers, Sequences, FiniteSets, TLC

\* ------------------------------------------------------------------ bounds
MaxLen == 2          \* longest password length the inputs range over
MaxN == 3            \* largest requested number of test hashes
MaxExcess == 1       \* how far a workload may exceed NUM_TEST_HASHES
MaxEntries == 12     \* largest table the viewer is given

\* ------------------------------------------------------- program constants
NUM_TEST_HASHES == 100
N_CHAINS_LIST == <<1000, 5000, 10000, 20000, 40000>>

VARIABLES
    \* generate_test_hashes
    charset, min_len, max_len, num_hashes, hashKind, test_set, genPc,
    \* run_experiment / __main__
    caller, workload, pc, idx, results, tableKind, pos, hits_found,
    raised, plotted,
    \* history of run_experiment (observations, never read by the program)
    genCalls, genDone, genFailed, loads, tableAt, lookupsAt,
    nExact, nCollide, nMiss,
    \* view_table.py
    argc, fileExists, loadOK, table, viewPc, count, printed, notice, exitStatus

genVars == <<charset, min_len, max_len, num_hashes, hashKind, test_set, genPc>>
expVars == <<caller, workload, pc, idx, results, tableKind, pos, hits_found,
             raised, plotted, genCalls, genDone, genFailed, loads, tableAt,
             lookupsAt, nExact, nCollide, nMiss>>
viewVars == <<argc, fileExists, loadOK, table, viewPc, count, printed, notice,
              exitStatus>>
vars == <<genVars, expVars, viewVars>>

Min(a, b) == IF a < b THEN a ELSE b

\* ====================================================================
\* generate_test_hashes (analyze_tradeoff.py 31-56)
\* ====================================================================

\* The charset strings the inputs range over (a string is a sequence of
\* characters); the empty string is a legal argument.
Charsets == {<< >>, <<"a">>, <<"a", "b">>}

HashKinds == {"injective", "byLength", "byFirst"}

CharCode(c) == IF c = "a" THEN 1 ELSE 2

\* Strings of length exactly k over the characters of cs.
StringsOfLen(cs, k) == [1..k -> {cs[i] : i \in 1..Len(cs)}]

\* Every password random.randint + random.choices can produce.
Passwords(cs, lo, hi) == UNION {StringsOfLen(cs, k) : k \in lo..hi}

AllPasswords == Passwords(<<"a", "b">>, 0, MaxLen)

RECURSIVE Encode(_)
Encode(p) == IF p = << >> THEN 0
             ELSE CharCode(Head(p)) + 3 * Encode(Tail(p))

\* hash_function of the external RainbowTable: a deterministic map from a
\* password to a digest byte; the three kinds differ in how much they collide.
hash_function(kind, p) ==
    CASE kind = "injective" -> Encode(p) % 256
      [] kind = "byLength"  -> Len(p)
      [] kind = "byFirst"   -> IF p = << >> THEN 0 ELSE CharCode(Head(p))

HexDigit(n) == <<"0","1","2","3","4","5","6","7","8","9","a","b","c","d","e","f">>[n + 1]

\* bytes.hex() of a one-byte digest: two lowercase hex digits.
Hex(d) == <<HexDigit(d \div 16), HexDigit(d % 16)>>

\* A dict is a set of <<key, value>> pairs.
DictKeys(d) == {e[1] : e \in d}
DictLen(d) == Cardinality(d)

\* d[k] = v
DictSet(d, k, v) == {e \in d : e[1] # k} \cup {<<k, v>>}

\* `while len(test_set) < num_hashes`
ContinueLoop_Leq(n, want) == n <= want
ContinueLoop(n, want) == n < want

\* `if hash_hex not in test_set: test_set[hash_hex] = password`
AddIfNew(d, k, v) == IF k \notin DictKeys(d) THEN DictSet(d, k, v) ELSE d

\* Digests reachable from the charset and the length range.
ReachableDigests ==
    {Hex(hash_function(hashKind, p)) : p \in Passwords(charset, min_len, max_len)}

IdleGen ==
    /\ charset = << >> /\ min_len = 0 /\ max_len = 0 /\ num_hashes = 0
    /\ hashKind = "injective" /\ test_set = {} /\ genPc = "idle"

InitGenVars ==
    /\ charset \in Charsets
    /\ min_len \in 0..MaxLen
    /\ max_len \in 0..MaxLen
    /\ num_hashes \in 0..MaxN
    /\ hashKind \in HashKinds
    /\ test_set = {}
    /\ genPc = "loop"

\* One iteration of the while loop that draws password p.
Draw(p) ==
    /\ genPc = "loop"
    /\ ContinueLoop(DictLen(test_set), num_hashes)
    /\ p \in Passwords(charset, min_len, max_len)
    /\ test_set' = AddIfNew(test_set, Hex(hash_function(hashKind, p)), p)
    /\ UNCHANGED <<charset, min_len, max_len, num_hashes, hashKind, genPc>>
    /\ UNCHANGED <<expVars, viewVars>>

\* random.randint raises ValueError on an empty range; random.choices raises
\* IndexError on an empty charset when the drawn length is positive.
DrawRaises ==
    /\ genPc = "loop"
    /\ ContinueLoop(DictLen(test_set), num_hashes)
    /\ \/ min_len > max_len
       \/ /\ charset = << >>
          /\ \E k \in min_len..max_len : k > 0
    /\ genPc' = "raised"
    /\ UNCHANGED <<charset, min_len, max_len, num_hashes, hashKind, test_set>>
    /\ UNCHANGED <<expVars, viewVars>>

\* The loop condition is false: print and return test_set.
GenReturn ==
    /\ genPc = "loop"
    /\ ~ContinueLoop(DictLen(test_set), num_hashes)
    /\ genPc' = "returned"
    /\ UNCHANGED <<charset, min_len, max_len, num_hashes, hashKind, test_set>>
    /\ UNCHANGED <<expVars, viewVars>>

NextGen ==
    \/ \E p \in AllPasswords : Draw(p)
    \/ DrawRaises
    \/ GenReturn

\* ====================================================================
\* run_experiment and the __main__ block (analyze_tradeoff.py 59-145, 215-228)
\* ====================================================================

\* The workload is test_set.items() in iteration order: entry i carries
\* hash i and original password i.  Only its size is state.
WorkloadSizes ==
    {0, 1, 3, NUM_TEST_HASHES}
        \cup (NUM_TEST_HASHES + 1 .. NUM_TEST_HASHES + MaxExcess)

original_password(i) == i

\* What rt.lookup returns: None or a password.
None == <<"None">>
Some(p) == <<"Some", p>>

\* The tables the external generator may leave behind:
\*   empty    rt.table is an empty dict
\*   missAll  no chain covers any test hash
\*   exact    every lookup recovers the original password
\*   mixed    lookups cycle through miss, exact, colliding password
TableKinds == {"empty", "missAll", "exact", "mixed"}

\* rt.lookup(hash_to_crack) for the i-th workload entry.
lookup(kind, i) ==
    CASE kind = "exact" -> Some(original_password(i))
      [] kind = "mixed" /\ i % 3 = 1 -> None
      [] kind = "mixed" /\ i % 3 = 2 -> Some(original_password(i))
      [] kind = "mixed" /\ i % 3 = 0 -> Some(original_password(i) + 1)
      [] OTHER -> None

\* `subprocess.run(..., check=True)`: a nonzero return code raises
\* CalledProcessError.
CheckRaises_Ignored(rc) == FALSE
CheckRaises(rc) == rc # 0

\* `if not rt.table`
TableIsEmpty_Never(kind) == FALSE
TableIsEmpty(kind) == kind = "empty"

\* Lines 116-122: the hit count after one lookup.
CountHit_ExactOnly(hits, found, orig) ==
    IF found = Some(orig) THEN hits + 1 ELSE hits
CountHit(hits, found, orig) ==
    IF found = Some(orig) THEN hits + 1
    ELSE IF found # None THEN hits + 1
    ELSE hits

\* A success rate is the exact rational num / den.
ZeroRate == [num |-> 0, den |-> 1]

\* `(hits_found / NUM_TEST_HASHES) * 100.0`
SuccessRate(hits) == [num |-> hits * 100, den |-> NUM_TEST_HASHES]

\* The dict appended to results; the file size and the generation time are
\* measurements no claim reads and are left out.
ResultRecord_NextChains(i, rate) ==
    [Chains |-> N_CHAINS_LIST[Min(i + 1, Len(N_CHAINS_LIST))], Rate |-> rate]
ResultRecord(i, rate) == [Chains |-> N_CHAINS_LIST[i], Rate |-> rate]

NoTables == [i \in 1..Len(N_CHAINS_LIST) |-> "none"]
NoLookups == [i \in 1..Len(N_CHAINS_LIST) |-> 0]

IdleExp ==
    /\ caller = "none" /\ workload = 0 /\ pc = "idle" /\ idx = 0
    /\ results = << >> /\ tableKind = "none" /\ pos = 0 /\ hits_found = 0
    /\ raised = "no" /\ plotted = <<"not called">>
    /\ genCalls = 0 /\ genDone = 0 /\ genFailed = FALSE /\ loads = 0
    /\ tableAt = NoTables /\ lookupsAt = NoLookups
    /\ nExact = 0 /\ nCollide = 0 /\ nMiss = 0

\* __main__ always passes the NUM_TEST_HASHES entries generate_test_hashes
\* returned; a direct call of run_experiment may pass any workload.
InitExpVars ==
    /\ caller \in {"main", "call"}
    /\ workload \in IF caller = "main" THEN {NUM_TEST_HASHES} ELSE WorkloadSizes
    /\ pc = "start" /\ idx = 0
    /\ results = << >> /\ tableKind = "none" /\ pos = 0 /\ hits_found = 0
    /\ raised = "no" /\ plotted = <<"not called">>
    /\ genCalls = 0 /\ genDone = 0 /\ genFailed = FALSE /\ loads = 0
    /\ tableAt = NoTables /\ lookupsAt = NoLookups
    /\ nExact = 0 /\ nCollide = 0 /\ nMiss = 0

\* Lines 63-71: results = [], then the for loop takes its first value.
RunExperimentStart ==
    /\ pc = "start"
    /\ results' = << >>
    /\ idx' = 1
    /\ pc' = "gen"
    /\ UNCHANGED <<caller, workload, tableKind, pos, hits_found, raised, plotted,
                   genCalls, genDone, genFailed, loads, tableAt, lookupsAt,
                   nExact, nCollide, nMiss>>
    /\ UNCHANGED <<genVars, viewVars>>

\* Lines 77-90: run the generation process and wait for it.
GenerateTable(rc) ==
    /\ pc = "gen"
    /\ genCalls' = genCalls + 1
    /\ genFailed' = (rc # 0)
    /\ IF CheckRaises(rc)
       THEN /\ pc' = "raised"
            /\ raised' = "CalledProcessError"
            /\ UNCHANGED genDone
       ELSE /\ pc' = "size"
            /\ genDone' = genDone + 1
            /\ UNCHANGED raised
    /\ UNCHANGED <<caller, workload, idx, results, tableKind, pos, hits_found,
                   plotted, loads, tableAt, lookupsAt, nExact, nCollide, nMiss>>
    /\ UNCHANGED <<genVars, viewVars>>

\* Lines 93-95: os.getsize raises FileNotFoundError when the output is missing.
MeasureFileSize(present) ==
    /\ pc = "size"
    /\ IF present
       THEN pc' = "load" /\ UNCHANGED raised
       ELSE pc' = "raised" /\ raised' = "FileNotFoundError"
    /\ UNCHANGED <<caller, workload, idx, results, tableKind, pos, hits_found,
                   plotted, genCalls, genDone, genFailed, loads, tableAt,
                   lookupsAt, nExact, nCollide, nMiss>>
    /\ UNCHANGED <<genVars, viewVars>>

\* End of one loop body: the for loop takes its next value or run_experiment
\* returns results.
NextPc(i) == IF i < Len(N_CHAINS_LIST) THEN "gen" ELSE "returned"
NextIdx(i) == IF i < Len(N_CHAINS_LIST) THEN i + 1 ELSE i

\* Lines 99-111: load the table; an empty table is recorded with 0.0 and the
\* loop continues, otherwise the evaluation pass starts.
LoadTable(outcome) ==
    /\ pc = "load"
    /\ loads' = loads + 1
    /\ IF outcome = "LoadError"
       THEN /\ pc' = "raised"
            /\ raised' = "LoadError"
            /\ UNCHANGED <<idx, results, tableKind, pos, hits_found, tableAt>>
       ELSE /\ tableKind' = outcome
            /\ tableAt' = [tableAt EXCEPT ![idx] = outcome]
            /\ UNCHANGED raised
            /\ IF TableIsEmpty(outcome)
               THEN /\ results' = Append(results, ResultRecord(idx, ZeroRate))
                    /\ pc' = NextPc(idx)
                    /\ idx' = NextIdx(idx)
                    /\ UNCHANGED <<pos, hits_found>>
               ELSE /\ hits_found' = 0
                    /\ pos' = 0
                    /\ pc' = "eval"
                    /\ UNCHANGED <<idx, results>>
    /\ nExact' = 0 /\ nCollide' = 0 /\ nMiss' = 0
    /\ UNCHANGED <<caller, workload, plotted, genCalls, genDone, genFailed,
                   lookupsAt>>
    /\ UNCHANGED <<genVars, viewVars>>

\* Lines 114-122: one iteration over test_set.items().
LookupStep ==
    /\ pc = "eval"
    /\ pos < workload
    /\ LET i == pos + 1
           found_password == lookup(tableKind, i)
       IN /\ hits_found' = CountHit(hits_found, found_password, original_password(i))
          /\ nExact' = nExact + (IF found_password = Some(original_password(i)) THEN 1 ELSE 0)
          /\ nCollide' = nCollide +
                (IF found_password # None /\ found_password # Some(original_password(i))
                 THEN 1 ELSE 0)
          /\ nMiss' = nMiss + (IF found_password = None THEN 1 ELSE 0)
          /\ pos' = i
    /\ lookupsAt' = [lookupsAt EXCEPT ![idx] = @ + 1]
    /\ UNCHANGED <<caller, workload, pc, idx, results, tableKind, raised, plotted,
                   genCalls, genDone, genFailed, loads, tableAt>>
    /\ UNCHANGED <<genVars, viewVars>>

\* Lines 124-143: compute the success rate and append the record.
StoreResult ==
    /\ pc = "eval"
    /\ pos = workload
    /\ results' = Append(results, ResultRecord(idx, SuccessRate(hits_found)))
    /\ pc' = NextPc(idx)
    /\ idx' = NextIdx(idx)
    /\ UNCHANGED <<caller, workload, tableKind, pos, hits_found, raised, plotted,
                   genCalls, genDone, genFailed, loads, tableAt, lookupsAt,
                   nExact, nCollide, nMiss>>
    /\ UNCHANGED <<genVars, viewVars>>

\* Lines 222-223: __main__ hands the returned list to analyze_and_plot.
MainReport ==
    /\ pc = "returned"
    /\ caller = "main"
    /\ plotted' = <<"called", results>>
    /\ pc' = "exit"
    /\ UNCHANGED <<caller, workload, idx, results, tableKind, pos, hits_found,
                   raised, genCalls, genDone, genFailed, loads, tableAt,
                   lookupsAt, nExact, nCollide, nMiss>>
    /\ UNCHANGED <<genVars, viewVars>>

\* Lines 225-228: the except clauses print a message and nothing else; the
\* list local to run_experiment is gone with its frame (results keeps what
\* had been collected, for the record).
MainHandler ==
    /\ pc = "raised"
    /\ caller = "main"
    /\ pc' = "exit"
    /\ UNCHANGED <<caller, workload, idx, results, tableKind, pos, hits_found,
                   raised, plotted, genCalls, genDone, genFailed, loads, tableAt,
                   lookupsAt, nExact, nCollide, nMiss>>
    /\ UNCHANGED <<genVars, viewVars>>

\* A direct caller gets the returned list, or the exception.
ReturnToCaller ==
    /\ pc \in {"returned", "raised"}
    /\ caller = "call"
    /\ pc' = "exit"
    /\ UNCHANGED <<caller, workload, idx, results, tableKind, pos, hits_found,
                   raised, plotted, genCalls, genDone, genFailed, loads, tableAt,
                   lookupsAt, nExact, nCollide, nMiss>>
    /\ UNCHANGED <<genVars, viewVars>>

NextExp ==
    \/ RunExperimentStart
    \/ \E rc \in {0, 2} : GenerateTable(rc)
    \/ \E present \in BOOLEAN : MeasureFileSize(present)
    \/ \E outcome \in TableKinds \cup {"LoadError"} : LoadTable(outcome)
    \/ LookupStep
    \/ StoreResult
    \/ MainReport
    \/ MainHandler
    \/ ReturnToCaller

\* ====================================================================
\* view_table.py
\* ====================================================================

\* The literal 10 of `if count >= 10`.
SAMPLE_LIMIT == 10

\* rt.table.items() of the persisted artifact, in iteration order: n pairs
\* <<tail-hash byte, head password>>, inserted in ascending or descending
\* key order.
TableOf(n, order) ==
    [i \in 1..n |-> LET k == IF order = "asc" THEN i ELSE n + 1 - i
                    IN <<k, <<"pw", k>>>>]

IdleView ==
    /\ argc = 0 /\ fileExists = FALSE /\ loadOK = FALSE /\ table = << >>
    /\ viewPc = "idle" /\ count = 0 /\ printed = << >> /\ notice = FALSE
    /\ exitStatus = 0

InitViewVars ==
    /\ argc \in 1..3
    /\ fileExists \in BOOLEAN
    /\ loadOK \in BOOLEAN
    /\ table \in {TableOf(n, o) : n \in 0..MaxEntries, o \in {"asc", "desc"}}
    /\ viewPc = "start" /\ count = 0 /\ printed = << >> /\ notice = FALSE
    /\ exitStatus = 0

\* Lines 9-19: the arity check and the missing-file check, each sys.exit(1).
ViewCheckArgs ==
    /\ viewPc = "start"
    /\ IF argc # 2
       THEN viewPc' = "exit" /\ exitStatus' = 1
       ELSE IF ~fileExists
            THEN viewPc' = "exit" /\ exitStatus' = 1
            ELSE viewPc' = "load" /\ UNCHANGED exitStatus
    /\ UNCHANGED <<argc, fileExists, loadOK, table, count, printed, notice>>
    /\ UNCHANGED <<genVars, expVars>>

\* Lines 21-39 and 48-51: load_from_file; on an exception the except block
\* prints three lines and the script runs off its end.
ViewLoad ==
    /\ viewPc = "load"
    /\ IF loadOK
       THEN /\ viewPc' = "loop"
            /\ count' = 0
            /\ UNCHANGED exitStatus
       ELSE /\ viewPc' = "exit"
            /\ exitStatus' = 0
            /\ UNCHANGED count
    /\ UNCHANGED <<argc, fileExists, loadOK, table, printed, notice>>
    /\ UNCHANGED <<genVars, expVars>>

\* `if count >= 10`
SampleLimitReached_Gt(c) == c > SAMPLE_LIMIT
SampleLimitReached(c) == c >= SAMPLE_LIMIT

\* Lines 40-46: one iteration over rt.table.items(); count is also the
\* number of items the iterator has handed out.
ViewLoopStep ==
    /\ viewPc = "loop"
    /\ count < Len(table)
    /\ LET item == table[count + 1]
       IN IF SampleLimitReached(count)
          THEN /\ notice' = TRUE
               /\ viewPc' = "exit"
               /\ exitStatus' = 0
               /\ UNCHANGED <<count, printed>>
          ELSE /\ printed' = Append(printed, <<Hex(item[1]), item[2]>>)
               /\ count' = count + 1
               /\ UNCHANGED <<notice, viewPc, exitStatus>>
    /\ UNCHANGED <<argc, fileExists, loadOK, table>>
    /\ UNCHANGED <<genVars, expVars>>

\* The iterator is exhausted: the script ends with status 0.
ViewLoopEnd ==
    /\ viewPc = "loop"
    /\ count = Len(table)
    /\ viewPc' = "exit"
    /\ exitStatus' = 0
    /\ UNCHANGED <<argc, fileExists, loadOK, table, count, printed, notice>>
    /\ UNCHANGED <<genVars, expVars>>

NextView ==
    \/ ViewCheckArgs
    \/ ViewLoad
    \/ ViewLoopStep
    \/ ViewLoopEnd

\* ====================================================================
\* Specifications
\* ====================================================================

InitGen == InitGenVars /\ IdleExp /\ IdleView
Init == IdleGen /\ InitExpVars /\ IdleView
InitView == IdleGen /\ IdleExp /\ InitViewVars

Next == NextExp

Spec == Init /\ [][Next]_vars
SpecGen == InitGen /\ [][NextGen]_vars
SpecView == InitView /\ [][NextView]_vars

\* Fair random draws: every password of the range keeps being drawn while
\* the loop runs, and the interpreter keeps running the function.
LiveSpecGen ==
    /\ InitGen /\ [][NextGen]_vars
    /\ \A p \in AllPasswords : WF_vars(Draw(p))
    /\ WF_vars(GenReturn)

\* ====================================================================
\* Properties
\* ====================================================================

\* C1: when generate_test_hashes returns, the mapping has exactly
\* num_hashes entries and its digests are pairwise distinct (the set of the
\* digests has num_hashes elements).
C1_ExactlyNDistinct ==
    genPc = "returned" =>
        /\ DictLen(test_set) = num_hashes
        /\ Cardinality(DictKeys(test_set)) = num_hashes

C1_Witness ==
    /\ genPc = "returned"
    /\ num_hashes = 3
    /\ hashKind = "byFirst"
    /\ DictLen(test_set) = 3

\* C2: after the generation process failed for a sweep value, the records
\* collected for the earlier values are handed to analyze_and_plot by the
\* top-level handler.
C2_PartialResultsReported ==
    (pc = "exit" /\ caller = "main" /\ genFailed /\ Len(results) > 0)
        => plotted = <<"called", results>>

\* C3: every success rate stored in a result record lies in [0, 100].
C3_RateWithinRange ==
    \A i \in 1..Len(results) :
        /\ 0 <= results[i].Rate.num
        /\ results[i].Rate.num <= 100 * results[i].Rate.den

\* C4: during and after the evaluation pass of one sweep value the hit count
\* is the number of lookups so far that returned a candidate, whether equal
\* to the expected password or not; lookups that returned None add nothing.
C4_HitsAreNonNullLookups ==
    pc = "eval" =>
        /\ hits_found = nExact + nCollide
        /\ nExact + nCollide + nMiss = pos

C4_Witness ==
    /\ pc = "eval"
    /\ pos = workload
    /\ nExact > 0 /\ nCollide > 0 /\ nMiss > 0

\* C5: a sweep value whose loaded table is empty gets no lookup and no
\* error, one record with success rate 0 at its place in results, and the
\* sweep moves on to the next value (or returns after the last one).
C5_EmptyTableZeroRate ==
    \A i \in 1..Len(N_CHAINS_LIST) :
        tableAt[i] = "empty" =>
            /\ lookupsAt[i] = 0
            /\ Len(results) >= i
            /\ results[i].Chains = N_CHAINS_LIST[i]
            /\ results[i].Rate.num = 0
            /\ (raised # "no" => idx # i)
            /\ (i < Len(N_CHAINS_LIST) => idx > i)
            /\ (i = Len(N_CHAINS_LIST) => pc \in {"returned", "exit"})

C5_Witness ==
    /\ tableAt[2] = "empty"
    /\ workload > 0
    /\ idx = 3
    /\ pc = "gen"

\* C6: once the generation process has exited nonzero, it is never invoked
\* again and no table is loaded or looked up, for the failed value or any
\* later one.
C6_AbortAfterFailure ==
    /\ [][genFailed =>
            /\ genCalls' = genCalls
            /\ loads' = loads
            /\ tableAt' = tableAt
            /\ lookupsAt' = lookupsAt]_vars
    /\ [](genFailed =>
            \A i \in idx..Len(N_CHAINS_LIST) :
                tableAt[i] = "none" /\ lookupsAt[i] = 0)

C6_Witness ==
    /\ genFailed
    /\ pc = "exit"
    /\ genCalls = 3
    /\ Len(results) = 2

\* C7: when the viewer cannot read its artifact (the path does not exist, or
\* loading raises), the process ends with a nonzero exit status.
C7_UnreadableExitsNonZero ==
    (viewPc = "exit" /\ argc = 2 /\ (~fileExists \/ ~loadOK))
        => exitStatus # 0

\* C8: the chain counts of results are always a prefix of N_CHAINS_LIST, one
\* record per processed value; a value's build completes before its table is
\* loaded, its record is appended before the next build starts, and a sweep
\* without error ends with one record per sweep value.
C8_OrderedPrefix ==
    /\ Len(results) <= Len(N_CHAINS_LIST)
    /\ \A i \in 1..Len(results) : results[i].Chains = N_CHAINS_LIST[i]
    /\ Len(results) <= loads
    /\ loads <= genDone
    /\ genDone <= genCalls
    /\ genCalls <= Len(results) + 1
    /\ (pc = "gen" => Len(results) = idx - 1 /\ genCalls = idx - 1)
    /\ (pc \in {"size", "load", "eval"} =>
            genDone = idx /\ Len(results) = idx - 1)
    /\ (pc = "eval" => loads = idx)
    /\ ((pc \in {"returned", "exit"} /\ raised = "no") =>
            Len(results) = Len(N_CHAINS_LIST))

C8_Witness ==
    /\ pc = "returned"
    /\ Len(results) = Len(N_CHAINS_LIST)
    /\ tableAt[1] = "mixed"
    /\ tableAt[Len(N_CHAINS_LIST)] = "exact"

\* C9: under fair draws generate_test_hashes leaves its loop whenever the
\* charset and length range reach at least num_hashes distinct digests, and
\* it does so by returning when no draw can raise (nonempty charset).
C9_Terminates ==
    /\ (genPc = "loop" /\ Cardinality(ReachableDigests) >= num_hashes)
            ~> (genPc # "loop")
    /\ (genPc = "loop" /\ Cardinality(ReachableDigests) >= num_hashes
            /\ charset # << >>)
            ~> (genPc = "returned" /\ DictLen(test_set) = num_hashes)

C9_Witness ==
    /\ genPc = "returned"
    /\ num_hashes > 1
    /\ Cardinality(ReachableDigests) = num_hashes
    /\ DictLen(test_set) = num_hashes
    /\ hashKind = "byLength"

\* C10: for a loaded artifact with n entries the viewer prints exactly the
\* first min(n, 10) pairs of the iteration order, and the truncation notice
\* exactly when n > 10.
C10_SampleOfFirstTen ==
    (viewPc = "exit" /\ argc = 2 /\ fileExists /\ loadOK) =>
        /\ printed = [i \in 1..Min(Len(table), 10) |->
                        <<Hex(table[i][1]), table[i][2]>>]
        /\ notice <=> (Len(table) > 10)

C10_Witness ==
    /\ viewPc = "exit"
    /\ argc = 2 /\ fileExists /\ loadOK
    /\ Len(table) = 11
    /\ table[1][1] = 11
    /\ notice
    /\ Len(printed) = 10

====
